---- MODULE Spec2Model ----
(***************************************************************************)
(* Severe-weather notifier: the scheduled run (main.py), the weather       *)
(* service (weather_api.py) and the alert sender (send_alert.py).          *)
(*                                                                         *)
(* Python values are modelled as follows.  None is the record None.  A     *)
(* number that may also be None (a latitude) is Num(n).  A JSON object is  *)
(* a record whose DOMAIN is its key set, a JSON list is a sequence.  A     *)
(* string that is matched against a regular expression is a sequence of    *)
(* one-character strings.                                                  *)
(***************************************************************************)
EXTENDS Integers, Sequences, FiniteSets, TLC

VARIABLES
    environ,              \* os.environ after load_dotenv(): which settings are present
    users_json,           \* the users.json file
    response,             \* weather_api.py:30, the HTTP response of a geocoding request
    pc,                   \* position of the run in run_scheduled_check / send_alert
    check_future_weather, \* main.py:45
    all_user_data,        \* main.py:49
    i,                    \* 1-based position of user_data in all_user_data (0: before the loop)
    EMAIL,                \* main.py:56
    lat, lon,             \* main.py:64
    raw_data,             \* main.py:70
    relevant_data,        \* main.py:76
    weather_id,           \* argument of the last check_severity call
    is_severe, category,  \* main.py:85 / main.py:98
    h,                    \* 1-based position of hour in relevant_data["next_12_hours"]
    caller,               \* which call site of send_alert is active: "current" or "forecast"
    sms_success,          \* send_alert.py:92
    result,               \* the pair send_alert returned, <<>> while it has not returned
    exc,                  \* the exception raised while processing the current user, "none" if none
    stop,                 \* why the run ended
    smsCalls, emailCalls, \* channel attempts made by the current send_alert call
    alerts,               \* send_alert invocations made for the current user: Now or an hour index
    classified,           \* check_severity calls made for the current user: Now or an hour index
    reports,              \* what the run printed for the current user
    evaluated,            \* positions of the store whose loop iteration was entered
    failedPos             \* positions of the store at which an exception was raised

vars == <<environ, users_json, response, pc, check_future_weather, all_user_data, i, EMAIL,
          lat, lon, raw_data, relevant_data, weather_id, is_severe, category, h,
          caller, sms_success, result, exc, stop, smsCalls, emailCalls, alerts,
          classified, reports, evaluated, failedPos>>

-----------------------------------------------------------------------------
(* Bounds of the model *)

MaxUsers == 2
MaxHours == 2
MaxHourly == 13
MaxCode == 1000
MaxEntries == 2
MaxTenths == 2400
MaxIdLen == 3
MaxCoord == 4

(* Program constants *)

ForecastSlice == 12
GateHour == 5
GateMinute == 30

-----------------------------------------------------------------------------
(* Python values *)

None == [t |-> "None"]
Num(n) == [t |-> "num", v |-> n]
Str(s) == [t |-> "str", s |-> s]
Dict(d) == [t |-> "dict", d |-> d]

\* dict.get(key, default)
Get(d, key, default) == IF key \in DOMAIN d THEN d[key] ELSE default

\* Python truthiness of a value that is None or a number
Falsy(x) == x = None \/ x = Num(0)

Min(a, b) == IF a < b THEN a ELSE b

-----------------------------------------------------------------------------
(* weather_api.py *)

\* check_severity with the upper end of the first range left out
check_severity_open(id_code) ==
    IF 200 <= id_code /\ id_code < 232 THEN <<TRUE, "Thunderstorm">>
    ELSE IF 500 <= id_code /\ id_code <= 531 THEN <<TRUE, "Rain">>
    ELSE IF 600 <= id_code /\ id_code <= 622 THEN <<TRUE, "Snow">>
    ELSE IF 700 <= id_code /\ id_code <= 781 THEN <<TRUE, "Atmospheric Condition">>
    ELSE IF 900 <= id_code /\ id_code <= 906 THEN <<TRUE, "Extreme Weather">>
    ELSE <<FALSE, "Clear or Mild">>

\* WeatherService.check_severity on an integer weather id
check_severity(id_code) ==
    IF 200 <= id_code /\ id_code <= 232 THEN <<TRUE, "Thunderstorm">>
    ELSE IF 500 <= id_code /\ id_code <= 531 THEN <<TRUE, "Rain">>
    ELSE IF 600 <= id_code /\ id_code <= 622 THEN <<TRUE, "Snow">>
    ELSE IF 700 <= id_code /\ id_code <= 781 THEN <<TRUE, "Atmospheric Condition">>
    ELSE IF 900 <= id_code /\ id_code <= 906 THEN <<TRUE, "Extreme Weather">>
    ELSE <<FALSE, "Clear or Mild">>

\* The value of a decimal digit character, -1 for any other character
DigitValue(c) ==
    IF c = "0" THEN 0 ELSE IF c = "1" THEN 1 ELSE IF c = "2" THEN 2
    ELSE IF c = "3" THEN 3 ELSE IF c = "4" THEN 4 ELSE IF c = "5" THEN 5
    ELSE IF c = "6" THEN 6 ELSE IF c = "7" THEN 7 ELSE IF c = "8" THEN 8
    ELSE IF c = "9" THEN 9 ELSE -1

\* The number that a sequence of digit characters denotes, read after acc
RECURSIVE DigitsValue(_, _)
DigitsValue(cs, acc) ==
    IF cs = <<>> THEN acc
    ELSE DigitsValue(Tail(cs), 10 * acc + DigitValue(Head(cs)))

\* A converted integer, or the exception of the conversion
Converted(n) == [raised |-> "none", v |-> n]
NotConverted(e) == [raised |-> e, v |-> 0]

\* int(s) for a string: an optional minus sign and one or more digits
IntOfString(cs) ==
    LET digits == IF cs # <<>> /\ Head(cs) = "-" THEN Tail(cs) ELSE cs
    IN  IF digits = <<>> \/ \E k \in 1..Len(digits) : DigitValue(digits[k]) < 0
        THEN NotConverted("ValueError")
        ELSE IF digits = cs THEN Converted(DigitsValue(digits, 0))
        ELSE Converted(0 - DigitsValue(digits, 0))

\* int(x) for a float given in tenths: truncation toward zero
IntOfTenths(k) == IF k >= 0 THEN k \div 10 ELSE 0 - ((0 - k) \div 10)

\* int(weather_id) of weather_api.py:97
IntOf(x) ==
    IF x.t = "num" THEN Converted(x.v)
    ELSE IF x.t = "float" THEN Converted(IntOfTenths(x.tenths))
    ELSE IF x.t = "inf" THEN NotConverted("OverflowError")
    ELSE IF x.t = "str" THEN IntOfString(x.s)
    ELSE NotConverted("TypeError")

\* WeatherService.check_severity on a weather id of any type: the pair it
\* returns, or the exception that except (ValueError, TypeError) lets through
check_severity_any(x) ==
    LET c == IntOf(x)
    IN  IF c.raised = "none" THEN [raised |-> "none", pair |-> check_severity(c.v)]
        ELSE IF c.raised \in {"ValueError", "TypeError"}
        THEN [raised |-> "none", pair |-> <<FALSE, "Unknown">>]
        ELSE [raised |-> c.raised, pair |-> <<FALSE, "">>]

\* The hourly sequence without the slice
Slice12_whole(s) == s

\* raw_data["hourly"][:12]
Slice12(s) == SubSeq(s, 1, Min(Len(s), ForecastSlice))

\* x["weather"][0] raises KeyError or IndexError
NoFirstWeather(x) == "weather" \notin DOMAIN x \/ Len(x.weather) = 0

\* A value that is no JSON object (null, a string, a list): subscripting it
\* with a key raises TypeError.  JSON objects carry no tag t.
NotSubscriptable(x) == "t" \in DOMAIN x

\* The exception that x["weather"][0] raises, "none" if it raises none
FirstWeatherError(x) ==
    IF NotSubscriptable(x) THEN "TypeError"
    ELSE IF "weather" \notin DOMAIN x THEN "KeyError"
    ELSE IF Len(x.weather) = 0 THEN "IndexError"
    ELSE "none"

\* The exception raised by the comprehension of weather_api.py:75: that of
\* the first hour, in order, whose hour["weather"][0] raises
HoursError(hours) ==
    LET bad == {k \in 1..Len(hours) : FirstWeatherError(hours[k]) # "none"}
    IN  IF bad = {} THEN "none"
        ELSE FirstWeatherError(hours[CHOOSE k \in bad : \A m \in bad : k <= m])

\* The exception raised inside the try of extract_relevant_data
ExtractError(raw) ==
    IF NotSubscriptable(raw) THEN "TypeError"
    ELSE IF "current" \notin DOMAIN raw THEN "KeyError"
    ELSE IF FirstWeatherError(raw.current) # "none" THEN FirstWeatherError(raw.current)
    ELSE IF "hourly" \notin DOMAIN raw THEN "KeyError"
    ELSE HoursError(Slice12(raw.hourly))

\* An exception that leaves a function
Raised(e) == [t |-> "raised", e |-> e]

\* WeatherService.extract_relevant_data: the dict it returns, None from the
\* except (KeyError, IndexError) branch, or the exception that branch does
\* not catch
extract_relevant_data(raw) ==
    LET e == ExtractError(raw)
    IN  IF e \in {"KeyError", "IndexError"} THEN None
        ELSE IF e # "none" THEN Raised(e)
        ELSE LET hours == Slice12(raw.hourly)
             IN  [current |-> raw.current.weather[1],
                  next_12_hours |-> [k \in 1..Len(hours) |-> hours[k].weather[1]]]

\* No request made
NoResponse == [kind |-> "none"]

\* WeatherService._make_api_request on the outcome of requests.get: the
\* parsed body, or None when the request raised (connection error, timeout),
\* the status was an error (raise_for_status) or the body is no JSON
make_api_request(resp) ==
    IF resp.kind \in {"ConnectionError", "HTTPError", "NotJSON"} THEN None
    ELSE resp.body

\* WeatherService.get_coordinates on the geocoding response data:
\* the pair (lat, lon), or the exception that data[0]["lat"] raises
get_coordinates(data) ==
    IF data = None \/ data = [t |-> "list", items |-> <<>>]
    THEN [raised |-> "none", lat |-> None, lon |-> None]
    ELSE IF data.t # "list" \/ DOMAIN data.items[1] # {"lat", "lon"}
    THEN [raised |-> "KeyError", lat |-> None, lon |-> None]
    ELSE [raised |-> "none", lat |-> Num(data.items[1].lat), lon |-> Num(data.items[1].lon)]

-----------------------------------------------------------------------------
(* send_alert.py *)

NotAt(s, a, b) == \A k \in a..b : s[k] # "@"

\* re.match(r"[^@]+@[^@]+\.[^@]+", email) is not None, for a string email:
\* a prefix of email has the shape  local @ domain . tld
is_valid_email(email) ==
    \E p \in 1..Len(email), q \in 1..Len(email) :
        /\ NotAt(email, 1, p)
        /\ p + 1 <= Len(email) /\ email[p + 1] = "@"
        /\ p + 2 <= q - 1 /\ NotAt(email, p + 2, q - 1)
        /\ email[q] = "."
        /\ q + 1 <= Len(email) /\ email[q + 1] # "@"

-----------------------------------------------------------------------------
(* Inputs of a run *)

\* One-character strings of the e-mail addresses
At == "@"
Dot == "."
Ch == "a"

\* The default of user_data.get("email", ...), "your@email.com" in shape
DefaultEmail == Str(<<Ch, At, Ch, Dot, Ch>>)

\* email values of a stored record: a well-formed address, a string that is
\* no address, an address followed by a second "@", and JSON null
EmailValues == {Str(<<Ch, At, Ch, Dot, Ch>>), Str(<<Ch, At, Ch>>),
                Str(<<Ch, At, Ch, Dot, Ch, At>>), None}

\* Elements of the list in users.json: key/value objects, with or without
\* the email key, and an element that is a JSON string
UserRecords ==
    {Dict([city |-> "Abuja", phone |-> "+1234567890", email |-> e]) : e \in EmailValues}
        \cup {Dict([city |-> "Abuja", phone |-> "+1234567890"]), Str(<<Ch>>)}

\* users.json: unreadable, or a list of at most MaxUsers elements
UsersFiles ==
    {[readable |-> FALSE, data |-> <<>>]}
        \cup {[readable |-> TRUE, data |-> d] :
                d \in UNION {[1..n -> UserRecords] : n \in 0..MaxUsers}}

\* Which settings the environment holds
Environments ==
    [OPENWEATHER_API_KEY : BOOLEAN, TWILIO_CREDENTIALS : BOOLEAN,
     TWILIO_PHONE_NUMBER : BOOLEAN, EMAIL_PASSWORD : BOOLEAN]

\* datetime.datetime.now() as <<hour, minute>>
Times == {<<GateHour - 1, 59>>, <<GateHour, 0>>, <<GateHour, GateMinute>>,
          <<GateHour, GateMinute + 1>>, <<GateHour + 1, 0>>}

\* Responses of the geocoding endpoint as _make_api_request returns them
GeoResponses ==
    {None, [t |-> "list", items |-> <<>>], [t |-> "object"],
     [t |-> "list", items |-> <<[lon |-> 7]>>]}
        \cup {[t |-> "list", items |-> <<[lat |-> a, lon |-> b]>>] :
                a \in {0, 9}, b \in {0, 7}}

\* Weather descriptors of the forecast endpoint
Clear == [id |-> 800, description |-> "clear sky"]
Storm == [id |-> 201, description |-> "thunderstorm with rain"]
Descriptors == {Clear, Storm}

Entry(d) == [weather |-> <<d>>]

\* Forecast payloads of a run: well-shaped ones with at most MaxHours hourly
\* entries, one without the hourly key, one with an empty descriptor list,
\* one whose current section is null
Payloads ==
    {[current |-> Entry(c), hourly |-> hs] :
        c \in Descriptors,
        hs \in UNION {[1..n -> {Entry(d) : d \in Descriptors}] : n \in 0..MaxHours}}
        \cup {[current |-> Entry(Clear)],
              [current |-> [weather |-> <<>>], hourly |-> <<Entry(Storm)>>],
              [current |-> None, hourly |-> <<Entry(Storm)>>]}

-----------------------------------------------------------------------------
(* main.py *)

\* load_users_data
load_users_data(file) == IF file.readable THEN file.data ELSE <<>>

\* main.py:45
CheckFutureWeather(now) == now[1] = GateHour /\ now[2] <= GateMinute

userVars == <<EMAIL, lat, lon, raw_data, relevant_data, weather_id, is_severe,
              category, h, exc, alerts, classified, reports>>
callVars == <<caller, sms_success, result, smsCalls, emailCalls>>
runVars == <<environ, users_json, response, check_future_weather, all_user_data>>

Init ==
    /\ environ \in Environments
    /\ users_json \in UsersFiles
    /\ response = NoResponse
    /\ pc = "start"
    /\ check_future_weather = FALSE
    /\ all_user_data = <<>>
    /\ i = 0
    /\ EMAIL = None
    /\ lat = None /\ lon = None
    /\ raw_data = None
    /\ relevant_data = None
    /\ weather_id = 0
    /\ is_severe = FALSE /\ category = ""
    /\ h = 0
    /\ caller = ""
    /\ sms_success = FALSE
    /\ result = <<>>
    /\ exc = "none"
    /\ stop = "running"
    /\ smsCalls = 0 /\ emailCalls = 0
    /\ alerts = <<>>
    /\ classified = <<>>
    /\ reports = <<>>
    /\ evaluated = {}
    /\ failedPos = {}

\* main.py:32-49: the API key check, the time gate, the load of the store
Start ==
    /\ pc = "start"
    /\ IF ~environ.OPENWEATHER_API_KEY
       THEN /\ pc' = "done" /\ stop' = "nokey"
            /\ UNCHANGED <<check_future_weather, all_user_data>>
       ELSE /\ \E now \in Times : check_future_weather' = CheckFutureWeather(now)
            /\ all_user_data' = load_users_data(users_json)
            /\ pc' = "loop" /\ UNCHANGED stop
    /\ UNCHANGED <<environ, users_json, response, i, userVars, callVars, evaluated,
                   failedPos>>

\* main.py:115-118: the per-user handler, then the next user
Except(e) ==
    /\ exc' = e
    /\ reports' = Append(reports, "error")
    /\ failedPos' = failedPos \cup {i}
    /\ pc' = "loop"

\* main.py:52-56: the next record, or the end of the loop; user_data.get
\* raises AttributeError on a record that is no dict, outside the per-user
\* try, and the handler of main.py:120-122 ends the run
NextUser ==
    /\ pc = "loop"
    /\ IF i = Len(all_user_data)
       THEN /\ pc' = "done" /\ stop' = "end"
            /\ UNCHANGED <<i, userVars, callVars, evaluated, failedPos>>
       ELSE LET user_data == all_user_data[i + 1]
            IN  /\ i' = i + 1
                /\ evaluated' = evaluated \cup {i + 1}
                /\ lat' = None /\ lon' = None /\ raw_data' = None
                /\ relevant_data' = None /\ weather_id' = 0
                /\ is_severe' = FALSE /\ category' = "" /\ h' = 0
                /\ alerts' = <<>> /\ classified' = <<>> /\ reports' = <<>>
                /\ caller' = "" /\ sms_success' = FALSE /\ result' = <<>>
                /\ smsCalls' = 0 /\ emailCalls' = 0
                /\ IF user_data.t # "dict"
                   THEN /\ exc' = "AttributeError"
                        /\ failedPos' = failedPos \cup {i + 1}
                        /\ EMAIL' = None
                        /\ pc' = "done" /\ stop' = "outer"
                   ELSE /\ exc' = "none"
                        /\ EMAIL' = Get(user_data.d, "email", DefaultEmail)
                        /\ pc' = "construct"
                        /\ UNCHANGED <<failedPos, stop>>
    /\ UNCHANGED runVars

\* main.py:60-61: AlertSender() builds the Twilio client, which raises when
\* the account id or the auth token is absent (send_alert.py:22-25)
Construct ==
    /\ pc = "construct"
    /\ IF ~environ.TWILIO_CREDENTIALS
       THEN /\ Except("TwilioException")
       ELSE /\ pc' = "coords"
            /\ UNCHANGED <<exc, reports, failedPos>>
    /\ UNCHANGED <<runVars, i, EMAIL, lat, lon, raw_data, relevant_data, weather_id,
                   is_severe, category, h, alerts, classified, callVars, stop, evaluated>>

\* main.py:64-67
Coordinates ==
    /\ pc = "coords"
    /\ \E data \in GeoResponses :
         LET r == get_coordinates(data)
         IN  IF r.raised # "none"
             THEN /\ Except(r.raised)
                  /\ UNCHANGED <<lat, lon>>
             ELSE /\ lat' = r.lat /\ lon' = r.lon
                  /\ IF Falsy(r.lat) \/ Falsy(r.lon)
                     THEN /\ reports' = Append(reports, "coordinates")
                          /\ pc' = "loop"
                     ELSE /\ pc' = "fetch"
                          /\ UNCHANGED reports
                  /\ UNCHANGED <<exc, failedPos>>
    /\ UNCHANGED <<runVars, i, EMAIL, raw_data, relevant_data, weather_id,
                   is_severe, category, h, alerts, classified, callVars, stop, evaluated>>

\* Fetch without the `continue` of main.py:73
Fetch_fallthrough ==
    /\ pc = "fetch"
    /\ \E raw \in {None} \cup Payloads :
         /\ raw_data' = raw
         /\ reports' = IF raw = None THEN Append(reports, "fetch") ELSE reports
         /\ pc' = "extract"
    /\ UNCHANGED <<runVars, i, EMAIL, lat, lon, relevant_data, weather_id, is_severe,
                   category, h, exc, alerts, classified, callVars, stop, evaluated,
                   failedPos>>

\* main.py:70-73
Fetch ==
    /\ pc = "fetch"
    /\ \E raw \in {None} \cup Payloads :
         /\ raw_data' = raw
         /\ IF raw = None
            THEN /\ reports' = Append(reports, "fetch")
                 /\ pc' = "loop"
            ELSE /\ pc' = "extract"
                 /\ UNCHANGED reports
    /\ UNCHANGED <<runVars, i, EMAIL, lat, lon, relevant_data, weather_id, is_severe,
                   category, h, exc, alerts, classified, callVars, stop, evaluated,
                   failedPos>>

\* main.py:76-79
Extract ==
    /\ pc = "extract"
    /\ LET r == extract_relevant_data(raw_data)
       IN  IF NotSubscriptable(r) /\ r # None
           THEN /\ Except(r.e)
                /\ UNCHANGED relevant_data
           ELSE /\ relevant_data' = r
                /\ IF r = None
                   THEN /\ reports' = Append(reports, "extraction")
                        /\ pc' = "loop"
                   ELSE /\ pc' = "current"
                        /\ UNCHANGED reports
                /\ UNCHANGED <<exc, failedPos>>
    /\ UNCHANGED <<runVars, i, EMAIL, lat, lon, raw_data, weather_id, is_severe,
                   category, h, alerts, classified, callVars, stop, evaluated>>

\* The current condition among the hour indexes 1, 2, ... of next_12_hours
Now == 0

\* The entry of send_alert from one of its two call sites
Call(site, finding) ==
    /\ alerts' = Append(alerts, finding)
    /\ caller' = site
    /\ sms_success' = FALSE /\ result' = <<>>
    /\ smsCalls' = 0 /\ emailCalls' = 0
    /\ pc' = "sms"

\* main.py:82-95 and 108-110: the current condition; when it is not severe,
\* the gate: the forecast loop, or "Skipping" and the break out of the user loop
CheckCurrent ==
    /\ pc = "current"
    /\ LET sev == check_severity(relevant_data.current.id)
       IN  /\ weather_id' = relevant_data.current.id
           /\ is_severe' = sev[1] /\ category' = sev[2]
           /\ classified' = Append(classified, Now)
           /\ IF sev[1]
              THEN /\ Call("current", Now)
                   /\ UNCHANGED <<reports, stop>>
              ELSE /\ IF check_future_weather
                      THEN /\ pc' = "forecast"
                           /\ UNCHANGED <<reports, stop>>
                      ELSE /\ reports' = Append(reports, "skipping")
                           /\ pc' = "done" /\ stop' = "break"
                   /\ UNCHANGED <<alerts, callVars>>
    /\ UNCHANGED <<runVars, i, EMAIL, lat, lon, raw_data, relevant_data, h, exc,
                   evaluated, failedPos>>

\* main.py:96-106: one iteration of the loop over next_12_hours, or its end
Forecast ==
    /\ pc = "forecast"
    /\ IF h = Len(relevant_data.next_12_hours)
       THEN /\ pc' = "nosevere"
            /\ UNCHANGED <<h, weather_id, is_severe, category, classified, alerts, callVars>>
       ELSE LET hour == relevant_data.next_12_hours[h + 1]
                sev == check_severity(hour.id)
            IN  /\ h' = h + 1
                /\ weather_id' = hour.id
                /\ is_severe' = sev[1] /\ category' = sev[2]
                /\ classified' = Append(classified, h + 1)
                /\ IF sev[1]
                   THEN Call("forecast", h + 1)
                   ELSE UNCHANGED <<pc, alerts, callVars>>
    /\ UNCHANGED <<runVars, i, EMAIL, lat, lon, raw_data, relevant_data, exc, reports,
                   stop, evaluated, failedPos>>

\* main.py:113
NoSevere ==
    /\ pc = "nosevere"
    /\ reports' = Append(reports, "no severe weather")
    /\ pc' = "loop"
    /\ UNCHANGED <<runVars, i, EMAIL, lat, lon, raw_data, relevant_data, weather_id,
                   is_severe, category, h, exc, alerts, classified, callVars, stop,
                   evaluated, failedPos>>

\* send_alert.py:92-94 with send_sms (40-60): every failure of the SMS
\* channel, a missing sender number included, is caught in send_sms
TrySMS ==
    /\ pc = "sms"
    /\ smsCalls' = smsCalls + 1
    /\ \E delivered \in BOOLEAN :
         /\ sms_success' = (environ.TWILIO_PHONE_NUMBER /\ delivered)
         /\ IF sms_success'
            THEN /\ result' = <<"SMS", "sid">>
                 /\ pc' = "return"
            ELSE /\ pc' = "validate"
                 /\ UNCHANGED result
    /\ UNCHANGED <<runVars, i, userVars, caller, emailCalls, stop, evaluated, failedPos>>

\* send_alert.py:97 and 107-108 with is_valid_email (31-38): re.match raises
\* TypeError on an email that is no string; nothing in send_alert catches
\* it, so it reaches the handler of main.py:115-118
Validate ==
    /\ pc = "validate"
    /\ IF EMAIL.t # "str"
       THEN /\ Except("TypeError")
            /\ UNCHANGED result
       ELSE /\ IF is_valid_email(EMAIL.s)
               THEN /\ pc' = "email"
                    /\ UNCHANGED result
               ELSE /\ result' = <<"Failed", "Invalid email address">>
                    /\ pc' = "return"
            /\ UNCHANGED <<exc, reports, failedPos>>
    /\ UNCHANGED <<runVars, i, EMAIL, lat, lon, raw_data, relevant_data, weather_id,
                   is_severe, category, h, alerts, classified, caller, sms_success,
                   smsCalls, emailCalls, stop, evaluated>>

\* send_alert.py:98-106 with send_email (62-84): every failure of the email
\* channel, absent credentials included, is caught in send_email
TryEmail ==
    /\ pc = "email"
    /\ emailCalls' = emailCalls + 1
    /\ \E delivered \in BOOLEAN :
         result' = IF environ.EMAIL_PASSWORD /\ delivered
                   THEN <<"Email", "Email sent">>
                   ELSE <<"Failed", "email error">>
    /\ pc' = "return"
    /\ UNCHANGED <<runVars, i, userVars, caller, sms_success, smsCalls, stop,
                   evaluated, failedPos>>

\* Return without the `continue` of main.py:92: the forecast loop follows
Return_fallthrough ==
    /\ pc = "return"
    /\ reports' = Append(reports, IF caller = "current" THEN "alert sent"
                                  ELSE "future alert sent")
    /\ pc' = "forecast"
    /\ UNCHANGED <<runVars, i, EMAIL, lat, lon, raw_data, relevant_data, weather_id,
                   is_severe, category, h, exc, alerts, classified, callVars, stop,
                   evaluated, failedPos>>

\* main.py:90-92 and 106-107: back in the caller, the print of the outcome,
\* then `continue` after the current alert or the next hour of the loop
Return ==
    /\ pc = "return"
    /\ IF caller = "current"
       THEN /\ reports' = Append(reports, "alert sent")
            /\ pc' = "loop"
       ELSE /\ reports' = Append(reports, "future alert sent")
            /\ pc' = "forecast"
    /\ UNCHANGED <<runVars, i, EMAIL, lat, lon, raw_data, relevant_data, weather_id,
                   is_severe, category, h, exc, alerts, classified, callVars, stop,
                   evaluated, failedPos>>

Next ==
    \/ Start
    \/ NextUser
    \/ Construct
    \/ Coordinates
    \/ Fetch
    \/ Extract
    \/ CheckCurrent
    \/ Forecast
    \/ NoSevere
    \/ TrySMS
    \/ Validate
    \/ TryEmail
    \/ Return

Spec == Init /\ [][Next]_vars

-----------------------------------------------------------------------------
(* The classifier and the normalizer on their own *)

\* The variables of the run that a single call of a pure function leaves alone
Idle ==
    /\ environ = [OPENWEATHER_API_KEY |-> TRUE, TWILIO_CREDENTIALS |-> TRUE,
                  TWILIO_PHONE_NUMBER |-> TRUE, EMAIL_PASSWORD |-> TRUE]
    /\ users_json = [readable |-> TRUE, data |-> <<>>]
    /\ check_future_weather = FALSE
    /\ all_user_data = <<>>
    /\ i = 0
    /\ EMAIL = None
    /\ lat = None /\ lon = None
    /\ h = 0
    /\ caller = ""
    /\ sms_success = FALSE
    /\ result = <<>>
    /\ exc = "none"
    /\ stop = "running"
    /\ smsCalls = 0 /\ emailCalls = 0
    /\ alerts = <<>>
    /\ classified = <<>>
    /\ reports = <<>>
    /\ evaluated = {}
    /\ failedPos = {}

\* Integer weather ids handed to check_severity
Codes == (0 - MaxCode)..MaxCode

InitSeverity ==
    /\ Idle
    /\ response = NoResponse
    /\ pc = "classify"
    /\ weather_id \in Codes
    /\ is_severe = FALSE /\ category = ""
    /\ raw_data = None /\ relevant_data = None

\* One call of check_severity(weather_id)
Classify ==
    /\ pc = "classify"
    /\ is_severe' = check_severity(weather_id)[1]
    /\ category' = check_severity(weather_id)[2]
    /\ pc' = "classified"
    /\ UNCHANGED <<runVars, i, EMAIL, lat, lon, raw_data, relevant_data, weather_id, h,
                   exc, alerts, classified, reports, callVars, stop, evaluated, failedPos>>

SpecSeverity == InitSeverity /\ [][Classify]_vars

\* Characters of the strings handed to check_severity
IdChars == {"0", "2", "3", "-", ".", "a"}

\* Weather ids of any type: integers, floats given in tenths, the float
\* infinity (JSON 1e999), strings of up to MaxIdLen characters, null, a list
AnyIds ==
    {Num(n) : n \in {199, 200, 232, 233, 800}}
        \cup {[t |-> "float", tenths |-> k] : k \in (0 - MaxTenths)..MaxTenths}
        \cup {[t |-> "inf"]}
        \cup {Str(cs) : cs \in UNION {[1..n -> IdChars] : n \in 0..MaxIdLen}}
        \cup {None, [t |-> "list", items |-> <<>>]}

InitSeverityAny ==
    /\ Idle
    /\ response = NoResponse
    /\ pc = "classify"
    /\ weather_id \in AnyIds
    /\ is_severe = FALSE /\ category = ""
    /\ raw_data = None /\ relevant_data = None

\* One call of check_severity(weather_id) on a weather id of any type
ClassifyAny ==
    /\ pc = "classify"
    /\ LET r == check_severity_any(weather_id)
       IN  IF r.raised # "none"
           THEN exc' = r.raised /\ UNCHANGED <<is_severe, category>>
           ELSE is_severe' = r.pair[1] /\ category' = r.pair[2] /\ UNCHANGED exc
    /\ pc' = "classified"
    /\ UNCHANGED <<runVars, i, EMAIL, lat, lon, raw_data, relevant_data, weather_id, h,
                   alerts, classified, reports, callVars, stop, evaluated, failedPos>>

SpecSeverityAny == InitSeverityAny /\ [][ClassifyAny]_vars

\* Bodies of the geocoding endpoint: JSON null, a list of no match, of one
\* match with lat and lon in -MaxCoord..MaxCoord, of a match without lat or
\* without lon, and an object (an error body) instead of a list
GeoBodies ==
    {None, [t |-> "list", items |-> <<>>], [t |-> "object"]}
        \cup {[t |-> "list", items |-> <<[lat |-> a, lon |-> b]>>] :
                a \in (0 - MaxCoord)..MaxCoord, b \in (0 - MaxCoord)..MaxCoord}
        \cup {[t |-> "list", items |-> <<[lon |-> b]>>] : b \in (0 - MaxCoord)..MaxCoord}
        \cup {[t |-> "list", items |-> <<[lat |-> a]>>] : a \in (0 - MaxCoord)..MaxCoord}

\* Outcomes of requests.get on the geocoding endpoint
GeoHttpResponses ==
    {[kind |-> "ConnectionError"], [kind |-> "HTTPError"], [kind |-> "NotJSON"]}
        \cup {[kind |-> "json", body |-> b] : b \in GeoBodies}

InitGeo ==
    /\ Idle
    /\ pc = "resolve"
    /\ response \in GeoHttpResponses
    /\ raw_data = None /\ relevant_data = None
    /\ weather_id = 0 /\ is_severe = FALSE /\ category = ""

\* One call of get_coordinates(city_name): it returns a pair, or it raises
Resolve ==
    /\ pc = "resolve"
    /\ LET r == get_coordinates(make_api_request(response))
       IN  IF r.raised # "none"
           THEN exc' = r.raised /\ UNCHANGED <<lat, lon>>
           ELSE lat' = r.lat /\ lon' = r.lon /\ UNCHANGED exc
    /\ pc' = "resolved"
    /\ UNCHANGED <<runVars, i, EMAIL, raw_data, relevant_data, weather_id, is_severe,
                   category, h, alerts, classified, reports, callVars, stop, evaluated,
                   failedPos>>

SpecGeo == InitGeo /\ [][Resolve]_vars

\* A section with one descriptor, and one with two whose first differs
Sections == {[weather |-> <<Clear>>], [weather |-> <<Storm, Clear>>]}

\* Payloads with a current section and up to MaxHourly hourly entries, each
\* with at least one descriptor
ShapedPayloads ==
    {[current |-> c, hourly |-> hs] :
        c \in Sections, hs \in UNION {[1..n -> Sections] : n \in 0..MaxHourly}}

InitExtract ==
    /\ Idle
    /\ response = NoResponse
    /\ pc = "normalize"
    /\ raw_data \in ShapedPayloads
    /\ relevant_data = None
    /\ weather_id = 0 /\ is_severe = FALSE /\ category = ""

\* One call of extract_relevant_data(raw_data): it returns, or it raises
Normalize ==
    /\ pc = "normalize"
    /\ LET r == extract_relevant_data(raw_data)
       IN  IF NotSubscriptable(r) /\ r # None
           THEN exc' = r.e /\ UNCHANGED relevant_data
           ELSE relevant_data' = r /\ UNCHANGED exc
    /\ pc' = "normalized"
    /\ UNCHANGED <<runVars, i, EMAIL, lat, lon, raw_data, weather_id, is_severe,
                   category, h, alerts, classified, reports, callVars, stop,
                   evaluated, failedPos>>

SpecExtract == InitExtract /\ [][Normalize]_vars

\* Sections as the endpoint may send them: with one or two descriptors,
\* without the weather key, with an empty descriptor list, null, a string
AnySections ==
    Sections \cup {[temp |-> "21"], [weather |-> <<>>], None, Str(<<Ch>>)}

\* ForecastSlice well-shaped hourly entries
FullHours == [k \in 1..ForecastSlice |-> [weather |-> <<Clear>>]]

\* Payloads of any shape: with or without the current and hourly keys, with
\* up to MaxEntries hourly entries of any shape, and with an entry of any
\* shape after ForecastSlice well-shaped ones
AnyPayloads ==
    LET hourlies == UNION {[1..n -> AnySections] : n \in 0..MaxEntries}
                        \cup {Append(FullHours, x) : x \in AnySections}
    IN  {[current |-> c, hourly |-> hs] : c \in AnySections, hs \in hourlies}
            \cup {[current |-> c] : c \in AnySections}
            \cup {[hourly |-> hs] : hs \in hourlies}
            \cup {[lat |-> "9"]}

InitExtractAny ==
    /\ Idle
    /\ response = NoResponse
    /\ pc = "normalize"
    /\ raw_data \in AnyPayloads
    /\ relevant_data = None
    /\ weather_id = 0 /\ is_severe = FALSE /\ category = ""

SpecExtractAny == InitExtractAny /\ [][Normalize]_vars

-----------------------------------------------------------------------------
(* Claims C1 - C10 *)

\* The table of severe ranges as the design states it: inclusive at both ends
SevereRanges ==
    {<<200, 232, "Thunderstorm">>, <<500, 531, "Rain">>, <<600, 622, "Snow">>,
     <<700, 781, "Atmospheric Condition">>, <<900, 906, "Extreme Weather">>}

SevereCode(c) == \E r \in SevereRanges : r[1] <= c /\ c <= r[2]

InSeq(x, s) == \E k \in 1..Len(s) : s[k] = x

\* The run has ended for a reason other than a missing API key
RunEnded == pc = "done" /\ stop # "nokey"

\* The processing of user i is over
UserOver == i >= 1 /\ pc \in {"loop", "done"}

\* The run went on after user i: it is at the head of the loop, or it ended
\* because the store was exhausted
WentOn == pc = "loop" \/ (pc = "done" /\ stop = "end")

\* The normalizer produced the conditions of user i
HasData == i >= 1 /\ relevant_data # None

\* The current send_alert call is over: it returned, or it raised
CallOver == pc = "return" \/ exc = "TypeError"

\* An address that passes the validation of the dispatcher
ValidAddress(e) == e.t = "str" /\ is_valid_email(e.s)

\* The hour indexes of the severe entries, in chronological order
RECURSIVE SevereHours(_, _)
SevereHours(hours, k) ==
    IF k > Len(hours) THEN <<>>
    ELSE IF SevereCode(hours[k].id) THEN <<k>> \o SevereHours(hours, k + 1)
    ELSE SevereHours(hours, k + 1)

\* C1: when the run ends (other than by the gate's break), every record that
\* follows a record whose processing raised an exception has been evaluated.
C1_FailureIsolated ==
    (RunEnded /\ stop # "break") =>
        \A f \in failedPos : \A j \in 1..Len(all_user_data) : j > f => j \in evaluated

C3_CurrentSevereOneAlert ==
    (HasData /\ SevereCode(relevant_data.current.id)) =>
        /\ \A k \in 1..Len(classified) : classified[k] = Now
        /\ \A k \in 1..Len(alerts) : alerts[k] = Now
        /\ Len(alerts) <= 1
        /\ UserOver => (alerts = <<Now>> /\ WentOn)

C3_Witness ==
    /\ HasData /\ SevereCode(relevant_data.current.id)
    /\ check_future_weather
    /\ InSeq(Storm, relevant_data.next_12_hours)
    /\ pc = "loop" /\ i < Len(all_user_data)
    /\ alerts = <<Now>>
    /\ result = <<"Failed", "email error">>

\* C4: for a user whose current condition is not severe, once the user is
\* done the alerts dispatched are exactly the severe entries of next_12_hours,
\* in order, when the gate is true, and none when the gate is false.
C4_ForecastAlerts ==
    (HasData /\ ~SevereCode(relevant_data.current.id) /\ UserOver) =>
        alerts = IF check_future_weather
                 THEN SevereHours(relevant_data.next_12_hours, 1)
                 ELSE <<>>

C6_PositionIndependent ==
    (RunEnded /\ \A j \in 1..Len(all_user_data) : all_user_data[j].t = "dict") =>
        evaluated = 1..Len(all_user_data)

\* C7: neither the construction of the alert sender nor send_alert raises an
\* exception, and a send_alert call that is over has one of the three outcomes.
C7_DispatchNeverRaises ==
    /\ exc \notin {"TypeError", "TwilioException"}
    /\ CallOver => (Len(result) = 2 /\ result[1] \in {"SMS", "Email", "Failed"})

\* The steps of user i that returned without raising
PastCoordinates == i >= 1 /\ exc = "none" /\ pc \notin {"start", "construct", "coords"}
CoordinatesAbsent == PastCoordinates /\ lat = None /\ lon = None
FetchAbsent ==
    /\ PastCoordinates /\ ~Falsy(lat) /\ ~Falsy(lon)
    /\ pc # "fetch" /\ raw_data = None
ExtractionAbsent ==
    /\ PastCoordinates /\ raw_data # None
    /\ pc # "extract" /\ relevant_data = None

\* Nothing classified, nothing dispatched, the one failure reported, next user
FailureOutcome(signal) ==
    /\ classified = <<>>
    /\ alerts = <<>>
    /\ reports = <<signal>>
    /\ WentOn

\* C8: when the coordinate lookup, the forecast fetch or the normalization
\* returns nothing, nothing is classified or dispatched for the user, the
\* matching failure is reported and the run proceeds to the next user.
C8_AbsentStopsUser ==
    /\ CoordinatesAbsent => FailureOutcome("coordinates")
    /\ FetchAbsent => FailureOutcome("fetch")
    /\ ExtractionAbsent => FailureOutcome("extraction")

C8_Witness ==
    /\ FetchAbsent
    /\ pc = "loop" /\ i < Len(all_user_data)
    /\ check_future_weather

\* The kinds of outcome among the reports of a user
Kind(r) ==
    IF r \in {"alert sent", "future alert sent"} THEN "alert"
    ELSE IF r = "no severe weather" THEN "none"
    ELSE "failure"

\* C9: a user processed without an exception gets reports of exactly one
\* kind, and the no-severe-weather status is among the reports of a user
\* with normalized data exactly when no alert was dispatched for that user.
C9_OneOutcome ==
    (UserOver /\ exc = "none") =>
        /\ Cardinality({Kind(reports[k]) : k \in 1..Len(reports)}) = 1
        /\ HasData => (InSeq("no severe weather", reports) <=> alerts = <<>>)

\* C10: for a payload with a current section and n hourly entries, each with
\* at least one descriptor, the normalizer returns the first descriptor of
\* the current section and of each of the first min(n, 12) hourly entries,
\* in order.
C10_ExtractFirstTwelve ==
    pc = "normalized" =>
        /\ relevant_data # None
        /\ relevant_data.current = Head(raw_data.current.weather)
        /\ Len(relevant_data.next_12_hours) = Min(Len(raw_data.hourly), 12)
        /\ \A k \in 1..Len(relevant_data.next_12_hours) :
             relevant_data.next_12_hours[k] = Head(raw_data.hourly[k].weather)

C10_Witness ==
    /\ pc = "normalized"
    /\ Len(raw_data.hourly) > 12
    /\ Len(relevant_data.next_12_hours) = 12
    /\ relevant_data.next_12_hours[12] = Storm
    /\ raw_data.hourly[13] = [weather |-> <<Clear>>]

-----------------------------------------------------------------------------
(* Claims C11 - C15 *)

\* A section without a first descriptor: missing weather key, empty
\* descriptor list, null or of the wrong type
Unshaped(x) == x \notin Sections

\* A payload whose required fields are missing or of the wrong shape: no
\* current or hourly key, an unshaped current section, or an unshaped entry
\* among the hourly entries that the normalizer reads
Malformed(raw) ==
    \/ NotSubscriptable(raw)
    \/ "current" \notin DOMAIN raw
    \/ "hourly" \notin DOMAIN raw
    \/ Unshaped(raw.current)
    \/ \E k \in 1..Min(Len(raw.hourly), 12) : Unshaped(raw.hourly[k])

\* C11: on a payload whose required fields are missing or whose shape does
\* not match, extract_relevant_data returns None and does not raise.
C11_MalformedGivesNone ==
    (pc = "normalized" /\ Malformed(raw_data)) => (exc = "none" /\ relevant_data = None)

\* A weather id that is not an integer: a float with a fraction, the float
\* infinity, a string, null, a list
NonInteger(x) ==
    /\ x.t # "num"
    /\ x.t = "float" => x.tenths % 10 # 0

\* C12: check_severity never raises, and for every input that is not an
\* integer it returns (False, Unknown).
C12_NonIntegerUnknown ==
    pc = "classified" =>
        /\ exc = "none"
        /\ NonInteger(weather_id) => (~is_severe /\ category = "Unknown")

\* The geocoding lookup succeeded with at least one match
HasMatch(resp) ==
    /\ resp.kind = "json"
    /\ resp.body # None /\ resp.body.t = "list" /\ resp.body.items # <<>>

\* C13: get_coordinates never raises: for every geocoding response it
\* returns the absent pair (None, None), or the (lat, lon) of the first match
\* when the lookup succeeded with a match that has both.
C13_ResolverNeverRaises ==
    pc = "resolved" =>
        /\ exc = "none"
        /\ \/ lat = None /\ lon = None
           \/ /\ HasMatch(response)
              /\ DOMAIN response.body.items[1] = {"lat", "lon"}
              /\ lat = Num(response.body.items[1].lat)
              /\ lon = Num(response.body.items[1].lon)

\* C14: a user is reported as coordinate-unavailable only when the resolver
\* returned the absent pair; a match, latitude 0 or longitude 0 included, is
\* present and the forecast is fetched for it.
C14_ZeroIsPresent ==
    (PastCoordinates /\ InSeq("coordinates", reports)) => (lat = None /\ lon = None)

\* weather_api.py:142-146: the loop of check_weather over next_12_hours from
\* entry k on; it returns at the first severe entry
RECURSIVE FirstSevereHour(_, _)
FirstSevereHour(hours, k) ==
    IF k > Len(hours) THEN <<>>
    ELSE IF check_severity(hours[k].id)[1] THEN <<k>>
    ELSE FirstSevereHour(hours, k + 1)

\* WeatherService.check_weather from the normalized conditions on
\* (weather_api.py:133-149): the severe findings it prints, by hour index,
\* and whether it prints the no-severe-weather status
check_weather(relevant, check_future) ==
    IF check_severity(relevant.current.id)[1]
    THEN [findings |-> <<Now>>, nosevere |-> FALSE]
    ELSE LET found == IF check_future
                      THEN FirstSevereHour(relevant.next_12_hours, 1)
                      ELSE <<>>
         IN  [findings |-> found, nosevere |-> found = <<>>]

\* C15: for the conditions of a user whose current condition is not severe,
\* evaluated with the forecast flag true, check_weather reports a finding for
\* exactly the hours run_scheduled_check dispatched an alert for, in order,
\* and it reports no-severe-weather only when it reported no finding.
C15_CheckWeatherAgrees ==
    (HasData /\ UserOver /\ exc = "none" /\ check_future_weather
        /\ ~SevereCode(relevant_data.current.id)) =>
        LET cw == check_weather(relevant_data, check_future_weather)
        IN  /\ cw.findings = alerts
            /\ cw.nosevere => cw.findings = <<>>

====
